---------------------------- MODULE Spec2Model ----------------------------
(***************************************************************************)
(* ResistorColorDuoAnalyzer (src/src/analyzers/resistor-color-duo/index.ts) *)
(* as a state machine.  Spec is one run of execute on one submission, from *)
(* a freshly constructed analyzer; RerunSpec runs it again on the same     *)
(* submission and ReuseSpec calls execute again on the same analyzer with  *)
(* another submission.  A parsed program is represented by the facts the   *)
(* analyzer reads from it: the `value` function, the named export of       *)
(* `value`, and the top-level constants.                                   *)
(***************************************************************************)
EXTENDS Naturals, Sequences, FiniteSets

(* ------------------------------ bounds -------------------------------- *)

\* longest parameter list of the `value` function that is enumerated
MaxParams == 2

\* largest number of top-level constants that is enumerated
MaxConstants == 2

(* ------------------------- the parsed program ------------------------- *)

\* JavaScript's undefined; every other value that can stand where undefined
\* can is a record with a type field, as ESTree nodes are
Undefined == [type |-> "undefined"]

\* !v of the source, for the values the analyzer tests
Falsy(v) == v.type = "undefined"

\* the node types a parameter of `value` is drawn from: the analyzer tells
\* RestElement apart and treats every other type as it treats Identifier
ParamTypes == {"Identifier", "RestElement"}

ParamNames == {"colors", "args"}

\* a parameter's type annotation: none, or an annotated type
TypeAnnotations == {Undefined, [type |-> "TSTypeAnnotation", text |-> "string[]"]}

\* the parameters enumerated: the annotation is varied on rest elements,
\* the only parameters whose annotation the analyzer reads
Params == { q \in [type : ParamTypes, name : ParamNames,
                   typeAnnotation : TypeAnnotations] :
              q.type # "RestElement" => q.typeAnnotation = Undefined }

\* the bounds of the submissions enumerated where execute is run more than
\* once
SmallMaxParams == 1

SmallMaxConstants == 1

\* a rest element is only grammatical as the last parameter
ParamLists ==
    UNION { { ps \in [1..n -> Params] :
                \A i \in 1..n : ps[i].type = "RestElement" => i = n }
            : n \in 0..MaxParams }

\* what the body of `value` does, as far as the comments of the two
\* matchers tell shapes apart (index.ts 148-167, 203-212)
Bodies == [shape : {"mapJoin", "reduce", "other"},
           coercion : {"Number", "parseInt"},
           lookup : {"single", "branching"}]

\* the result of extractMainMethod when it finds the function
MainMethods == [type : {"ArrowFunctionExpression"},
                id : {[name |-> "value"]},
                params : ParamLists,
                body : Bodies]

\* the export declaration extractExport finds: inline (no specifiers) or
\* a specifier list naming value
ExportDeclarations == { [type |-> "ExportNamedDeclaration", specifiers |-> s] :
                          s \in {<<>>, <<"value">>} }

\* the initializer node types of top-level constants
InitTypes == {"ArrayExpression", "ObjectExpression", "FunctionExpression",
              "ArrowFunctionExpression", "NewExpression"}

\* what an object literal's keys are: the ten colour names (black ... white)
\* or anything else; the analyzer never reads them
ObjectKeys == {"colors", "other"}

\* the initializers enumerated
InitNodes == { [type |-> t] : t \in InitTypes \ {"ObjectExpression"} }
             \cup { [type |-> "ObjectExpression", keys |-> k] : k \in ObjectKeys }

ConstantLists ==
    UNION { [1..n -> [init : InitNodes]] : n \in 0..MaxConstants }

\* the programs the parser can hand to the analyzer
Programs == [type : {"Program"},
             method : {Undefined} \cup MainMethods,
             export : {Undefined} \cup ExportDeclarations,
             constants : ConstantLists]

(* ------------------------------ comments ------------------------------ *)

NO_METHOD(name) ==
    [id |-> "NO_METHOD", variables |-> << <<"method.name", name>> >>]

NO_NAMED_EXPORT(name) ==
    [id |-> "NO_NAMED_EXPORT", variables |-> << <<"export.name", name>> >>]

NO_PARAMETER(name) ==
    [id |-> "NO_PARAMETER", variables |-> << <<"function.name", name>> >>]

UNEXPECTED_SPLAT_ARGS(name, type) ==
    [id |-> "UNEXPECTED_SPLAT_ARGS",
     variables |-> << <<"splat-arg.name", name>>, <<"parameter.type", type>> >>]

TIP_EXPORT_INLINE ==
    [id |-> "javascript.resistor-color-duo.export_inline", variables |-> <<>>]

(* ------------------------------- state -------------------------------- *)

VARIABLES
    input,           \* the submission execute is called with
    pc,              \* where execute is
    program,         \* this.program
    _mainMethod,     \* the memo of the mainMethod getter
    _mainExport,     \* the memo of the mainExport getter
    _mainConstants,  \* the memo of the mainConstants getter
    comments,        \* the comments of the run's output, in order
    verdict,         \* the status of the run's output
    trace,           \* the checks and matchers called so far, in order
    matched,         \* what each matcher returned, once evaluated
    previous         \* the output of the run before, when execute is run again

vars == <<input, pc, program, _mainMethod, _mainExport, _mainConstants,
          comments, verdict, trace, matched, previous>>


Verdicts == {"Approved", "Disapproved", "ReferredToMentor"}

\* a submission is a source text: one the parser rejects, or the text of
\* a program
Inputs == {[malformed |-> TRUE, text |-> Undefined]}
          \cup { [malformed |-> FALSE, text |-> p] : p \in Programs }

\* Parser.parse(input): rejects malformed source, and otherwise answers
\* the program the text is of
ParserParse(in) ==
    IF in.malformed THEN [ok |-> FALSE, program |-> Undefined]
    ELSE [ok |-> TRUE, program |-> in.text]

Init ==
    /\ input \in Inputs
    /\ pc = "start"
    /\ program = Undefined
    /\ _mainMethod = Undefined
    /\ _mainExport = Undefined
    /\ _mainConstants = Undefined
    /\ comments = <<>>
    /\ verdict = "none"
    /\ trace = <<>>
    /\ matched = [mapJoin |-> "unevaluated", reduce |-> "unevaluated"]
    /\ previous = Undefined

(* --------------------------- fact extraction -------------------------- *)

\* the `value` function of the program, or undefined
extractMainMethod(p) == p.method

\* the pair [declaration, node] for the named export of `value`; both
\* undefined when there is none, and the pair itself is never undefined
extractExport(p) == [type |-> "Array", declaration |-> p.export]

\* the top-level let, const and var declarators, in declaration order
findTopLevelConstants(p) == [type |-> "Array", items |-> p.constants]

\* the name a parameter binds
parameterName(param) == param.name

\* the annotated type as text, or the untyped marker
annotateType(typeAnnotation) ==
    IF Falsy(typeAnnotation) THEN "untyped" ELSE typeAnnotation.text

(* ------------------------- the memoizing getters ---------------------- *)

mainMethod ==
    IF Falsy(_mainMethod) THEN extractMainMethod(program) ELSE _mainMethod

mainExport ==
    IF Falsy(_mainExport) THEN extractExport(program) ELSE _mainExport

mainConstants ==
    IF Falsy(_mainConstants) THEN findTopLevelConstants(program)
    ELSE _mainConstants

(* ------------------------------ matchers ------------------------------ *)

RECURSIVE CountWhere(_, _)
\* items.filter(pred).length, pred given as the set of node types it accepts
CountWhere(items, types) ==
    IF items = <<>> THEN 0
    ELSE (IF Head(items).init.type \in types THEN 1 ELSE 0)
         + CountWhere(Tail(items), types)

\* the acceptable types with object literals let in
acceptableTypes_WithObject ==
    {"ArrayExpression", "FunctionExpression", "ArrowFunctionExpression",
     "ObjectExpression"}

acceptableTypes ==
    {"ArrayExpression", "FunctionExpression", "ArrowFunctionExpression"}

\* isUsingOptimalConstants without its second test
isUsingOptimalConstants_NoShapeFilter ==
    IF CountWhere(mainConstants.items, {"ArrayExpression"}) # 1 THEN FALSE
    ELSE TRUE

isUsingOptimalConstants ==
    IF CountWhere(mainConstants.items, {"ArrayExpression"}) # 1 THEN FALSE
    ELSE IF CountWhere(mainConstants.items, InitTypes \ acceptableTypes) > 0
         THEN FALSE
    ELSE TRUE

\* the map-join matcher answering true once the constants are optimal
isOptimalMapJoinImplementation_ConstantsOnly ==
    IF ~isUsingOptimalConstants THEN FALSE
    ELSE TRUE

isOptimalMapJoinImplementation ==
    IF ~isUsingOptimalConstants THEN FALSE
    ELSE FALSE

isOptimalReduceImplementation == FALSE

hasInlineExport ==
    Len(mainExport.declaration.specifiers) = 0

(* ------------------------ the steps of execute ------------------------ *)

hasCommentary(cs) == Len(cs) > 0

\* execute catching the parser's rejection and carrying on to its end
Parse_SwallowsFailure ==
    /\ pc = "start"
    /\ LET parsed == ParserParse(input)
       IN IF parsed.ok
          THEN /\ program' = parsed.program
               /\ pc' = "checkStructure"
          ELSE /\ pc' = "end"
               /\ UNCHANGED program
    /\ UNCHANGED <<input, previous, _mainMethod, _mainExport, _mainConstants,
                   comments, verdict, trace, matched>>

\* const [parsed] = await Parser.parse(input): either the parse rejects and
\* execute rejects with it, or the program is stored
Parse ==
    /\ pc = "start"
    /\ LET parsed == ParserParse(input)
       IN IF parsed.ok
          THEN /\ program' = parsed.program
               /\ pc' = "checkStructure"
          ELSE /\ pc' = "rejected"
               /\ UNCHANGED program
    /\ UNCHANGED <<input, previous, _mainMethod, _mainExport, _mainConstants, comments,
                   verdict, trace, matched>>

\* disapprove(comment): record the comment, set the status and finalize
\* the run early
Disapprove(cs) ==
    /\ comments' = cs
    /\ verdict' = "Disapproved"
    /\ pc' = "done"

\* checkStructure without its closing `if (this.hasCommentary)` block
CheckStructure_NoDisapprove ==
    /\ pc = "checkStructure"
    /\ LET method == mainMethod
           functionDeclaration == mainExport.declaration
           c1 == IF Falsy(method)
                 THEN Append(comments, NO_METHOD("value")) ELSE comments
           c2 == IF Falsy(functionDeclaration)
                 THEN Append(c1, NO_NAMED_EXPORT("value")) ELSE c1
       IN /\ _mainMethod' = method
          /\ _mainExport' = mainExport
          /\ trace' = Append(trace, "checkStructure")
          /\ comments' = c2
          /\ pc' = "checkSignature"
          /\ UNCHANGED verdict
    /\ UNCHANGED <<input, previous, program, _mainConstants, matched>>

\* checkStructure setting the status without finalizing the run
CheckStructure_NoFinalize ==
    /\ pc = "checkStructure"
    /\ LET method == mainMethod
           functionDeclaration == mainExport.declaration
           c1 == IF Falsy(method)
                 THEN Append(comments, NO_METHOD("value")) ELSE comments
           c2 == IF Falsy(functionDeclaration)
                 THEN Append(c1, NO_NAMED_EXPORT("value")) ELSE c1
       IN /\ _mainMethod' = method
          /\ _mainExport' = mainExport
          /\ trace' = Append(trace, "checkStructure")
          /\ comments' = c2
          /\ pc' = "checkSignature"
          /\ verdict' = IF hasCommentary(c2) THEN "Disapproved" ELSE verdict
    /\ UNCHANGED <<input, previous, program, _mainConstants, matched>>

\* checkStructure reporting a missing export only when the function is
\* missing too
CheckStructure_NestedExportCheck ==
    /\ pc = "checkStructure"
    /\ LET method == mainMethod
           functionDeclaration == mainExport.declaration
           c1 == IF Falsy(method)
                 THEN Append(comments, NO_METHOD("value")) ELSE comments
           c2 == IF Falsy(method) /\ Falsy(functionDeclaration)
                 THEN Append(c1, NO_NAMED_EXPORT("value")) ELSE c1
       IN /\ _mainMethod' = method
          /\ _mainExport' = mainExport
          /\ trace' = Append(trace, "checkStructure")
          /\ IF hasCommentary(c2)
             THEN Disapprove(c2)
             ELSE /\ comments' = c2
                  /\ pc' = "checkSignature"
                  /\ UNCHANGED verdict
    /\ UNCHANGED <<input, previous, program, _mainConstants, matched>>

\* checkStructure testing the export before the function
CheckStructure_ExportFirst ==
    /\ pc = "checkStructure"
    /\ LET method == mainMethod
           functionDeclaration == mainExport.declaration
           c1 == IF Falsy(functionDeclaration)
                 THEN Append(comments, NO_NAMED_EXPORT("value")) ELSE comments
           c2 == IF Falsy(method)
                 THEN Append(c1, NO_METHOD("value")) ELSE c1
       IN /\ _mainMethod' = method
          /\ _mainExport' = mainExport
          /\ trace' = Append(trace, "checkStructure")
          /\ IF hasCommentary(c2)
             THEN Disapprove(c2)
             ELSE /\ comments' = c2
                  /\ pc' = "checkSignature"
                  /\ UNCHANGED verdict
    /\ UNCHANGED <<input, previous, program, _mainConstants, matched>>

CheckStructure ==
    /\ pc = "checkStructure"
    /\ LET method == mainMethod
           functionDeclaration == mainExport.declaration
           c1 == IF Falsy(method)
                 THEN Append(comments, NO_METHOD("value")) ELSE comments
           c2 == IF Falsy(functionDeclaration)
                 THEN Append(c1, NO_NAMED_EXPORT("value")) ELSE c1
       IN /\ _mainMethod' = method
          /\ _mainExport' = mainExport
          /\ trace' = Append(trace, "checkStructure")
          /\ IF hasCommentary(c2)
             THEN Disapprove(c2)
             ELSE /\ comments' = c2
                  /\ pc' = "checkSignature"
                  /\ UNCHANGED verdict
    /\ UNCHANGED <<input, previous, program, _mainConstants, matched>>

\* checkSignature testing for exactly one parameter where it tests for none
CheckSignature_OffByOne ==
    /\ pc = "checkSignature"
    /\ LET method == mainMethod
       IN /\ _mainMethod' = method
          /\ IF Falsy(method)
             THEN /\ trace' = Append(trace, "checkSignature")
                  /\ pc' = "rejected"
                  /\ UNCHANGED <<comments, verdict>>
             ELSE IF Len(method.params) = 1
             THEN /\ trace' = Append(trace, "checkSignature")
                  /\ Disapprove(Append(comments, NO_PARAMETER(method.id.name)))
             ELSE IF Len(method.params) = 0
             THEN \* firstParameter.type of undefined: a TypeError
                  /\ trace' = trace \o <<"checkSignature", "firstParameter">>
                  /\ pc' = "rejected"
                  /\ UNCHANGED <<comments, verdict>>
             ELSE LET firstParameter == method.params[1]
                  IN /\ trace' = trace \o <<"checkSignature", "firstParameter">>
                     /\ IF firstParameter.type = "RestElement"
                        THEN Disapprove(Append(comments,
                               UNEXPECTED_SPLAT_ARGS(
                                 parameterName(firstParameter),
                                 annotateType(firstParameter.typeAnnotation))))
                        ELSE /\ pc' = "checkForOptimalSolutions"
                             /\ UNCHANGED <<comments, verdict>>
    /\ UNCHANGED <<input, previous, program, _mainExport, _mainConstants, matched>>

\* checkSignature inspecting the last parameter where it inspects the first
CheckSignature_LastParameter ==
    /\ pc = "checkSignature"
    /\ LET method == mainMethod
       IN /\ _mainMethod' = method
          /\ IF Falsy(method)
             THEN /\ trace' = Append(trace, "checkSignature")
                  /\ pc' = "rejected"
                  /\ UNCHANGED <<comments, verdict>>
             ELSE IF Len(method.params) = 0
             THEN /\ trace' = Append(trace, "checkSignature")
                  /\ Disapprove(Append(comments, NO_PARAMETER(method.id.name)))
             ELSE LET firstParameter == method.params[Len(method.params)]
                  IN /\ trace' = trace \o <<"checkSignature", "firstParameter">>
                     /\ IF firstParameter.type = "RestElement"
                        THEN Disapprove(Append(comments,
                               UNEXPECTED_SPLAT_ARGS(
                                 parameterName(firstParameter),
                                 annotateType(firstParameter.typeAnnotation))))
                        ELSE /\ pc' = "checkForOptimalSolutions"
                             /\ UNCHANGED <<comments, verdict>>
    /\ UNCHANGED <<input, previous, program, _mainExport, _mainConstants, matched>>

\* checkSignature disapproving a parameterless function without a comment
CheckSignature_NoComment ==
    /\ pc = "checkSignature"
    /\ LET method == mainMethod
       IN /\ _mainMethod' = method
          /\ IF Falsy(method)
             THEN /\ trace' = Append(trace, "checkSignature")
                  /\ pc' = "rejected"
                  /\ UNCHANGED <<comments, verdict>>
             ELSE IF Len(method.params) = 0
             THEN /\ trace' = Append(trace, "checkSignature")
                  /\ Disapprove(comments)
             ELSE LET firstParameter == method.params[1]
                  IN /\ trace' = trace \o <<"checkSignature", "firstParameter">>
                     /\ IF firstParameter.type = "RestElement"
                        THEN Disapprove(Append(comments,
                               UNEXPECTED_SPLAT_ARGS(
                                 parameterName(firstParameter),
                                 annotateType(firstParameter.typeAnnotation))))
                        ELSE /\ pc' = "checkForOptimalSolutions"
                             /\ UNCHANGED <<comments, verdict>>
    /\ UNCHANGED <<input, previous, program, _mainExport, _mainConstants, matched>>

\* checkSignature taking the first parameter with method.params.shift(),
\* which removes it from the memoized function
CheckSignature_Shift ==
    /\ pc = "checkSignature"
    /\ LET method == mainMethod
       IN /\ IF Falsy(method)
             THEN /\ trace' = Append(trace, "checkSignature")
                  /\ pc' = "rejected"
                  /\ _mainMethod' = method
                  /\ UNCHANGED <<comments, verdict>>
             ELSE IF Len(method.params) = 0
             THEN /\ trace' = Append(trace, "checkSignature")
                  /\ _mainMethod' = method
                  /\ Disapprove(Append(comments, NO_PARAMETER(method.id.name)))
             ELSE LET firstParameter == method.params[1]
                  IN /\ trace' = trace \o <<"checkSignature", "firstParameter">>
                     /\ _mainMethod' =
                          [method EXCEPT !.params = Tail(method.params)]
                     /\ IF firstParameter.type = "RestElement"
                        THEN Disapprove(Append(comments,
                               UNEXPECTED_SPLAT_ARGS(
                                 parameterName(firstParameter),
                                 annotateType(firstParameter.typeAnnotation))))
                        ELSE /\ pc' = "checkForOptimalSolutions"
                             /\ UNCHANGED <<comments, verdict>>
    /\ UNCHANGED <<input, previous, program, _mainExport, _mainConstants, matched>>

CheckSignature ==
    /\ pc = "checkSignature"
    /\ LET method == mainMethod
       IN /\ _mainMethod' = method
          /\ IF Falsy(method)
             THEN \* method.params of undefined: a TypeError rejects execute
                  /\ trace' = Append(trace, "checkSignature")
                  /\ pc' = "rejected"
                  /\ UNCHANGED <<comments, verdict>>
             ELSE IF Len(method.params) = 0
             THEN /\ trace' = Append(trace, "checkSignature")
                  /\ Disapprove(Append(comments, NO_PARAMETER(method.id.name)))
             ELSE LET firstParameter == method.params[1]
                  IN /\ trace' = trace \o <<"checkSignature", "firstParameter">>
                     /\ IF firstParameter.type = "RestElement"
                        THEN Disapprove(Append(comments,
                               UNEXPECTED_SPLAT_ARGS(
                                 parameterName(firstParameter),
                                 annotateType(firstParameter.typeAnnotation))))
                        ELSE /\ pc' = "checkForOptimalSolutions"
                             /\ UNCHANGED <<comments, verdict>>
    /\ UNCHANGED <<input, previous, program, _mainExport, _mainConstants, matched>>

\* checkForTips: the comments after it
checkForTips(cs) ==
    IF ~hasInlineExport THEN Append(cs, TIP_EXPORT_INLINE) ELSE cs

Text(b) == IF b THEN "true" ELSE "false"

\* checkForOptimalSolutions running the tips check before its test of the
\* matchers
CheckForOptimalSolutions_TipsFirst ==
    /\ pc = "checkForOptimalSolutions"
    /\ LET mapJoin == isOptimalMapJoinImplementation
           reduce == isOptimalReduceImplementation
       IN /\ _mainConstants' = mainConstants
          /\ matched' = [mapJoin |-> Text(mapJoin),
                         reduce |-> IF mapJoin THEN "unevaluated"
                                    ELSE Text(reduce)]
          /\ comments' = checkForTips(comments)
          /\ IF ~mapJoin /\ ~reduce
             THEN /\ trace' = trace \o <<"checkForOptimalSolutions",
                                         "checkForTips",
                                         "isOptimalMapJoinImplementation",
                                         "isOptimalReduceImplementation">>
                  /\ pc' = "end"
                  /\ UNCHANGED verdict
             ELSE /\ trace' = trace
                       \o <<"checkForOptimalSolutions", "checkForTips",
                            "isOptimalMapJoinImplementation">>
                       \o (IF mapJoin THEN <<>>
                           ELSE <<"isOptimalReduceImplementation">>)
                  /\ verdict' = "Approved"
                  /\ pc' = "done"
    /\ UNCHANGED <<input, previous, program, _mainMethod, _mainExport>>

\* checkForOptimalSolutions returning early when a matcher matched, and
\* approving when none did
CheckForOptimalSolutions_Inverted ==
    /\ pc = "checkForOptimalSolutions"
    /\ LET mapJoin == isOptimalMapJoinImplementation
           reduce == isOptimalReduceImplementation
       IN /\ _mainConstants' = mainConstants
          /\ matched' = [mapJoin |-> Text(mapJoin),
                         reduce |-> IF mapJoin THEN "unevaluated"
                                    ELSE Text(reduce)]
          /\ IF mapJoin \/ reduce
             THEN /\ trace' = trace
                       \o <<"checkForOptimalSolutions",
                            "isOptimalMapJoinImplementation">>
                       \o (IF mapJoin THEN <<>>
                           ELSE <<"isOptimalReduceImplementation">>)
                  /\ pc' = "end"
                  /\ UNCHANGED <<comments, verdict>>
             ELSE /\ trace' = trace \o <<"checkForOptimalSolutions",
                                         "isOptimalMapJoinImplementation",
                                         "isOptimalReduceImplementation",
                                         "checkForTips">>
                  /\ comments' = checkForTips(comments)
                  /\ verdict' = "Approved"
                  /\ pc' = "done"
    /\ UNCHANGED <<input, previous, program, _mainMethod, _mainExport>>

CheckForOptimalSolutions ==
    /\ pc = "checkForOptimalSolutions"
    /\ LET mapJoin == isOptimalMapJoinImplementation
           reduce == isOptimalReduceImplementation
       IN /\ _mainConstants' = mainConstants
          /\ matched' = [mapJoin |-> Text(mapJoin),
                         reduce |-> IF mapJoin THEN "unevaluated"
                                    ELSE Text(reduce)]
          /\ IF ~mapJoin /\ ~reduce
             THEN /\ trace' = trace \o <<"checkForOptimalSolutions",
                                         "isOptimalMapJoinImplementation",
                                         "isOptimalReduceImplementation">>
                  /\ pc' = "end"
                  /\ UNCHANGED <<comments, verdict>>
             ELSE /\ trace' = trace
                       \o <<"checkForOptimalSolutions",
                            "isOptimalMapJoinImplementation">>
                       \o (IF mapJoin THEN <<>>
                           ELSE <<"isOptimalReduceImplementation">>)
                       \o <<"checkForTips">>
                  /\ comments' = checkForTips(comments)
                  /\ verdict' = "Approved"
                  /\ pc' = "done"
    /\ UNCHANGED <<input, previous, program, _mainMethod, _mainExport>>

\* execute returns without an early finalization: the solution is
\* referred to the mentor
Refer ==
    /\ pc = "end"
    /\ verdict' = "ReferredToMentor"
    /\ pc' = "done"
    /\ UNCHANGED <<input, previous, program, _mainMethod, _mainExport, _mainConstants,
                   comments, trace, matched>>

Next ==
    \/ Parse
    \/ CheckStructure
    \/ CheckSignature
    \/ CheckForOptimalSolutions
    \/ Refer

Spec == Init /\ [][Next]_vars

\* execute is synchronous after the awaited parse: once the parser has
\* answered, each step that can be taken is taken
FairSpec ==
    /\ Spec
    /\ WF_vars(CheckStructure)
    /\ WF_vars(CheckSignature)
    /\ WF_vars(CheckForOptimalSolutions)
    /\ WF_vars(Refer)

(* ----------------------- execute run more than once ------------------- *)

\* the programs enumerated where execute is run more than once: one body,
\* one parameter name, no annotation
SmallPrograms ==
    { p \in Programs :
        /\ Len(p.constants) <= SmallMaxConstants
        /\ ~Falsy(p.method) =>
              /\ Len(p.method.params) <= SmallMaxParams
              /\ p.method.body = [shape |-> "mapJoin", coercion |-> "Number",
                                  lookup |-> "single"]
              /\ \A i \in DOMAIN p.method.params :
                    /\ p.method.params[i].name = "colors"
                    /\ p.method.params[i].typeAnnotation = Undefined }

SmallInputs == { in \in Inputs : ~in.malformed => in.text \in SmallPrograms }

SmallInit ==
    /\ Init
    /\ input \in SmallInputs

\* a new run starts from a fresh output
FreshOutput ==
    /\ pc' = "start"
    /\ comments' = <<>>
    /\ verdict' = "none"
    /\ trace' = <<>>
    /\ matched' = [mapJoin |-> "unevaluated", reduce |-> "unevaluated"]

\* the engine is run again on the same source text, by a newly constructed
\* analyzer or by the same one, whose fields keep their values
Rerun ==
    /\ pc \in {"done", "rejected"}
    /\ previous' = [type |-> "Output", status |-> verdict,
                    comments |-> comments, pc |-> pc]
    /\ FreshOutput
    /\ \E sameAnalyzer \in BOOLEAN :
         IF sameAnalyzer
         THEN UNCHANGED <<program, _mainMethod, _mainExport, _mainConstants>>
         ELSE /\ program' = Undefined
              /\ _mainMethod' = Undefined
              /\ _mainExport' = Undefined
              /\ _mainConstants' = Undefined
    /\ UNCHANGED input

RerunNext == Next \/ Rerun

RerunSpec == SmallInit /\ [][RerunNext]_vars

\* execute is called on the same analyzer with another submission: its
\* fields keep their values
Reuse ==
    /\ pc \in {"done", "rejected"}
    /\ input' \in SmallInputs
    /\ FreshOutput
    /\ UNCHANGED <<previous, program, _mainMethod, _mainExport, _mainConstants>>

ReuseNext == Next \/ Reuse

ReuseSpec == SmallInit /\ [][ReuseNext]_vars

(* ---------------------- vocabulary of the properties ------------------ *)

Range(seq) == { seq[i] : i \in 1..Len(seq) }

Ids(cs) == { cs[i].id : i \in 1..Len(cs) }

StructuralIds == {"NO_METHOD", "NO_NAMED_EXPORT"}

SignatureIds == {"NO_PARAMETER", "UNEXPECTED_SPLAT_ARGS"}

BlockingIds == StructuralIds \cup SignatureIds

HasBlocking(cs) == Ids(cs) \cap BlockingIds # {}

\* the parse succeeded and the run is over, by a verdict or by an error
Finished == ~Falsy(program) /\ pc \in {"done", "rejected"}

\* the program has a `value` function and a named export of `value`
PassesStructure(p) == ~Falsy(p.method) /\ ~Falsy(p.export)

\* ... and the function has a first parameter that is no rest element
PassesSignature(p) ==
    /\ PassesStructure(p)
    /\ Len(p.method.params) > 0
    /\ p.method.params[1].type # "RestElement"

(* --------------------------------- C1 --------------------------------- *)

\* C1: once a check has recorded a blocking comment the run is Disapproved
\* and over: no later check has run (no signature check after a structural
\* comment, no optimality or tips check after any blocking comment), the
\* last comment of the list is a blocking one, and from then on the list,
\* the checks run and the verdict never change.
C1_BlockingCommentEndsTheRun ==
    /\ [](HasBlocking(comments) =>
            /\ verdict = "Disapproved"
            /\ pc = "done"
            /\ comments[Len(comments)].id \in BlockingIds
            /\ Range(trace) \cap {"checkForOptimalSolutions", "checkForTips",
                                  "isOptimalMapJoinImplementation",
                                  "isOptimalReduceImplementation"} = {}
            /\ (Ids(comments) \cap StructuralIds # {}
                  => trace = <<"checkStructure">>)
            /\ (Ids(comments) \cap SignatureIds # {}
                  => trace[Len(trace)] \in {"checkSignature", "firstParameter"}))
    /\ [][HasBlocking(comments) =>
            /\ comments' = comments
            /\ trace' = trace
            /\ verdict' = verdict]_vars

\* a run the signature check has blocked on a splat, after the structure
\* check passed
C1_Witness ==
    /\ pc = "done"
    /\ verdict = "Disapproved"
    /\ Ids(comments) = {"UNEXPECTED_SPLAT_ARGS"}
    /\ trace = <<"checkStructure", "checkSignature", "firstParameter">>

(* --------------------------------- C2 --------------------------------- *)

LacksExportedValue(p) == Falsy(p.method) \/ Falsy(p.export)

\* C3 as stated: every submission lacking an exported `value` function is
\* Disapproved with NO_NAMED_EXPORT among its comments.
C3_Original ==
    (Finished /\ LacksExportedValue(program)) =>
        /\ verdict = "Disapproved"
        /\ "NO_NAMED_EXPORT" \in Ids(comments)

\* C3, amended: every submission lacking an exported `value` function is
\* Disapproved; its comments are NO_NAMED_EXPORT alone when the function
\* exists without a named export, NO_METHOD then NO_NAMED_EXPORT when both
\* are missing, and NO_METHOD alone when `value` is exported but is no
\* function.
C3_LackingExportedValueIsDisapproved ==
    (Finished /\ LacksExportedValue(program)) =>
        /\ verdict = "Disapproved"
        /\ pc = "done"
        /\ comments =
             (IF Falsy(program.method)
              THEN << [id |-> "NO_METHOD",
                       variables |-> << <<"method.name", "value">> >>] >>
              ELSE <<>>)
             \o
             (IF Falsy(program.export)
              THEN << [id |-> "NO_NAMED_EXPORT",
                       variables |-> << <<"export.name", "value">> >>] >>
              ELSE <<>>)

\* a finished run on a program that exports a `value` that is no function
C3_Witness ==
    /\ Finished
    /\ Falsy(program.method)
    /\ ~Falsy(program.export)
    /\ verdict = "Disapproved"


(* --------------------------------- C4 --------------------------------- *)

\* C4: a submission that passes the structure check and whose `value`
\* function declares no parameter is Disapproved with NO_PARAMETER, naming
\* the function, as its only comment, whatever its body and constants are;
\* the first parameter is not inspected and no matcher is called.
C4_NoParameterIsDisapproved ==
    (Finished /\ PassesStructure(program) /\ Len(program.method.params) = 0) =>
        /\ verdict = "Disapproved"
        /\ pc = "done"
        /\ comments = << [id |-> "NO_PARAMETER",
                          variables |-> << <<"function.name", "value">> >>] >>
        /\ trace = <<"checkStructure", "checkSignature">>
        /\ matched = [mapJoin |-> "unevaluated", reduce |-> "unevaluated"]

\* a finished run on a parameterless `value` whose body and constants have
\* the shape the map-join matcher is documented to accept
C4_Witness ==
    /\ Finished
    /\ PassesStructure(program)
    /\ Len(program.method.params) = 0
    /\ program.method.body =
         [shape |-> "mapJoin", coercion |-> "Number", lookup |-> "single"]
    /\ program.constants = <<[init |-> [type |-> "ArrayExpression"]]>>
    /\ verdict = "Disapproved"

(* --------------------------------- C5 --------------------------------- *)

\* the type text the splat comment is to carry for a parameter
ExpectedTypeText(param) ==
    IF param.typeAnnotation = Undefined THEN "untyped"
    ELSE param.typeAnnotation.text

\* C5: a submission that passes the structure check and whose first
\* parameter is a rest element is Disapproved with one comment,
\* UNEXPECTED_SPLAT_ARGS carrying that parameter's name and its annotated
\* type, or untyped; when the first parameter is no rest element the run is
\* not disapproved and has no splat comment, also when a later parameter is
\* a rest element.
C5_FirstParameterSplatIsDisapproved ==
    (Finished /\ PassesStructure(program) /\ Len(program.method.params) > 0) =>
        LET first == program.method.params[1]
        IN IF first.type = "RestElement"
           THEN /\ verdict = "Disapproved"
                /\ pc = "done"
                /\ comments =
                     << [id |-> "UNEXPECTED_SPLAT_ARGS",
                         variables |->
                           << <<"splat-arg.name", first.name>>,
                              <<"parameter.type", ExpectedTypeText(first)>> >>] >>
           ELSE /\ verdict # "Disapproved"
                /\ "UNEXPECTED_SPLAT_ARGS" \notin Ids(comments)

\* a finished run on a `value` whose only parameter is an annotated rest
\* element
C5_Witness ==
    /\ Finished
    /\ PassesStructure(program)
    /\ Len(program.method.params) = 1
    /\ program.method.params[1].type = "RestElement"
    /\ program.method.params[1].typeAnnotation # Undefined
    /\ verdict = "Disapproved"

(* --------------------------------- C6 --------------------------------- *)

\* C6: a submission that passes the structure and signature checks and on
\* which both matchers were evaluated and answered false ends
\* ReferredToMentor with no comment, the tips check not having run.
C6_NoMatchIsReferredToMentor ==
    (/\ Finished
     /\ PassesSignature(program)
     /\ matched = [mapJoin |-> "false", reduce |-> "false"]) =>
        /\ pc = "done"
        /\ verdict = "ReferredToMentor"
        /\ comments = <<>>
        /\ "checkForTips" \notin Range(trace)

\* a finished run on which both matchers answered false, the export being
\* a specifier list (the tips check would have commented)
C6_Witness ==
    /\ Finished
    /\ pc = "done"
    /\ PassesSignature(program)
    /\ matched = [mapJoin |-> "false", reduce |-> "false"]
    /\ program.export.specifiers = <<"value">>

(* ----------------- the shapes the matchers are documented to accept --- *)

\* one top-level Array constant, every other constant a function
\* (index.ts 160, 177, 185-186)
OneArrayOtherwiseFunctions(cs) ==
    /\ Cardinality({ i \in DOMAIN cs : cs[i].init.type = "ArrayExpression" }) = 1
    /\ \A i \in DOMAIN cs :
         cs[i].init.type \in {"ArrayExpression", "FunctionExpression",
                              "ArrowFunctionExpression"}

\* the optimal map-join solution as the comment in
\* isOptimalMapJoinImplementation describes it (index.ts 148-167)
DocumentedMapJoin(p) ==
    /\ PassesSignature(p)
    /\ OneArrayOtherwiseFunctions(p.constants)
    /\ p.method.body =
         [shape |-> "mapJoin", coercion |-> "Number", lookup |-> "single"]

\* the reduce variant as the comment in isOptimalReduceImplementation
\* describes it (index.ts 203-212)
DocumentedReduce(p) ==
    /\ PassesSignature(p)
    /\ p.method.body.shape = "reduce"
    /\ p.method.body.lookup = "single"

(* --------------------------------- C7 --------------------------------- *)

C8_ApprovedOnlyOnMatchWithoutBlocking ==
    Finished =>
        (verdict = "Approved" =>
            /\ ~HasBlocking(comments)
            /\ (matched.mapJoin = "true" \/ matched.reduce = "true"))

\* a finished run that reached the optimality check, where no matcher
\* answered true
C8_Witness ==
    /\ Finished
    /\ pc = "done"
    /\ "checkForOptimalSolutions" \in Range(trace)
    /\ matched.mapJoin # "true"
    /\ matched.reduce # "true"
    /\ verdict # "Approved"

(* --------------------------------- C9 --------------------------------- *)

\* C9: a submission with one Array lookup table, a single-expression
\* lookup function and an exported `value` joining the lookups with Number
\* is matched by the map-join matcher and Approved.
C9_CanonicalMapJoinIsApproved ==
    (Finished /\ DocumentedMapJoin(program)) =>
        /\ matched.mapJoin = "true"
        /\ verdict = "Approved"

(* --------------------------------- C10 -------------------------------- *)

\* the canonical map-join shape, with parseInt for the final join
ParseIntMapJoin(p) ==
    /\ PassesSignature(p)
    /\ OneArrayOtherwiseFunctions(p.constants)
    /\ p.method.body =
         [shape |-> "mapJoin", coercion |-> "parseInt", lookup |-> "single"]

\* C10: a submission of the canonical map-join shape that joins with
\* parseInt is matched by neither matcher and ends ReferredToMentor.
C10_ParseIntJoinIsReferredToMentor ==
    (Finished /\ ParseIntMapJoin(program)) =>
        /\ matched = [mapJoin |-> "false", reduce |-> "false"]
        /\ verdict = "ReferredToMentor"
        /\ pc = "done"

\* a finished run on the parseInt map-join with an Array table and an
\* arrow lookup function
C10_Witness ==
    /\ Finished
    /\ ParseIntMapJoin(program)
    /\ Len(program.constants) = 2
    /\ verdict = "ReferredToMentor"


(* --------------------------------- C11 -------------------------------- *)

\* C11: a submission whose `value` reverses the colors and reduces them
\* to digit * 10 ** index, with no branching in the callback, is matched by
\* the reduce matcher and Approved with no blocking comment.
C11_DocumentedReduceIsApproved ==
    (Finished /\ DocumentedReduce(program)) =>
        /\ matched.reduce = "true"
        /\ verdict = "Approved"
        /\ ~HasBlocking(comments)

(* --------------------------------- C12 -------------------------------- *)

\* C12: on a submission of a shape a matcher is documented to match, the
\* Approved verdict carries exactly the inline-export tip when `value` is
\* exported through a specifier list, and no comment when it is exported
\* inline; a Disapproved or ReferredToMentor verdict never carries the tip.
C12_TipExactlyOnApprovedSpecifierExport ==
    /\ (Finished /\ (DocumentedMapJoin(program) \/ DocumentedReduce(program))) =>
          /\ verdict = "Approved"
          /\ comments =
               (IF program.export.specifiers = <<>> THEN <<>>
                ELSE << [id |-> "javascript.resistor-color-duo.export_inline",
                         variables |-> <<>>] >>)
    /\ (verdict \in {"Disapproved", "ReferredToMentor"} =>
          "javascript.resistor-color-duo.export_inline" \notin Ids(comments))


(* --------------------------------- C13 -------------------------------- *)

\* C13: isUsingOptimalConstants answers false whenever a top-level
\* constant is initialized with neither an array nor a function, and true
\* when exactly one constant is an array and all others are functions;
\* when it answers false the map-join matcher answers false and the run is
\* not Approved.
C13_OptimalConstants ==
    ~Falsy(program) =>
        LET cs == program.constants
        IN /\ (\E i \in DOMAIN cs :
                  cs[i].init.type \notin {"ArrayExpression", "FunctionExpression",
                                          "ArrowFunctionExpression"})
                 => ~isUsingOptimalConstants
           /\ OneArrayOtherwiseFunctions(cs) => isUsingOptimalConstants
           /\ ~isUsingOptimalConstants =>
                 /\ ~isOptimalMapJoinImplementation
                 /\ matched.mapJoin # "true"
                 /\ verdict # "Approved"

\* a finished run that reached the matchers on a program with two object
\* constants and no array
C13_Witness ==
    /\ Finished
    /\ Len(program.constants) = 2
    /\ \A i \in DOMAIN program.constants :
          program.constants[i].init.type = "ObjectExpression"
    /\ matched.mapJoin = "false"
    /\ verdict = "ReferredToMentor"

(* --------------------------------- C14 -------------------------------- *)

\* the table is an object literal keyed by the ten colour names, there is
\* no array, and every other constant is a function
ObjectTableOtherwiseFunctions(cs) ==
    /\ Cardinality({ i \in DOMAIN cs :
                       cs[i].init = [type |-> "ObjectExpression",
                                     keys |-> "colors"] }) = 1
    /\ \A i \in DOMAIN cs :
         cs[i].init.type \in {"ObjectExpression", "FunctionExpression",
                              "ArrowFunctionExpression"}
    /\ \A i \in DOMAIN cs :
         cs[i].init.type = "ObjectExpression" => cs[i].init.keys = "colors"

\* C14 as stated: the constants condition is satisfied by exactly one
\* array constant, or by an object literal keyed by the ten colour names,
\* and not by both together.
C14_Original ==
    ~Falsy(program) =>
        LET cs == program.constants
        IN /\ OneArrayOtherwiseFunctions(cs) => isUsingOptimalConstants
           /\ ObjectTableOtherwiseFunctions(cs) => isUsingOptimalConstants
           /\ (/\ \E i \in DOMAIN cs : cs[i].init.type = "ArrayExpression"
               /\ \E i \in DOMAIN cs : cs[i].init.type = "ObjectExpression")
                 => ~isUsingOptimalConstants

\* C14, amended: the constants condition is satisfied exactly when one
\* top-level constant is an array and every other one a function; a table
\* written as an object literal does not satisfy it, with an array or
\* without one.
C14_OnlyTheArrayFormSatisfies ==
    ~Falsy(program) =>
        LET cs == program.constants
        IN /\ isUsingOptimalConstants <=> OneArrayOtherwiseFunctions(cs)
           /\ (\E i \in DOMAIN cs : cs[i].init.type = "ObjectExpression")
                 => ~isUsingOptimalConstants

\* a finished run on the Number map-join over an object table keyed by the
\* colour names, its only constant
C14_Witness ==
    /\ Finished
    /\ PassesSignature(program)
    /\ program.constants =
         << [init |-> [type |-> "ObjectExpression", keys |-> "colors"]] >>
    /\ program.method.body =
         [shape |-> "mapJoin", coercion |-> "Number", lookup |-> "single"]
    /\ matched.mapJoin = "false"


(* --------------------------------- C15 -------------------------------- *)

\* C15: when the engine is run again on the same source text, any number
\* of times, the run ends as the run before it did: the same verdict (or
\* the same parse failure) and the same comments, in the same order and
\* with the same variables.
C15_RerunGivesTheSameOutput ==
    (pc \in {"done", "rejected"} /\ ~Falsy(previous)) =>
        /\ verdict = previous.status
        /\ comments = previous.comments
        /\ pc = previous.pc

\* a second run that has ended disapproved with a splat comment, as the
\* first did
C15_Witness ==
    /\ pc = "done"
    /\ ~Falsy(previous)
    /\ previous.status = "Disapproved"
    /\ Ids(comments) = {"UNEXPECTED_SPLAT_ARGS"}
    /\ ~Falsy(_mainExport)


(* --------------------------------- C16 -------------------------------- *)

\* how a run by a newly constructed analyzer ends on a program
FreshOutcome(p) ==
    IF Falsy(p.method) \/ Falsy(p.export)
    THEN [status |-> "Disapproved",
          comments |->
            (IF Falsy(p.method)
             THEN << [id |-> "NO_METHOD",
                      variables |-> << <<"method.name", "value">> >>] >>
             ELSE <<>>)
            \o
            (IF Falsy(p.export)
             THEN << [id |-> "NO_NAMED_EXPORT",
                      variables |-> << <<"export.name", "value">> >>] >>
             ELSE <<>>)]
    ELSE IF Len(p.method.params) = 0
    THEN [status |-> "Disapproved",
          comments |-> << [id |-> "NO_PARAMETER",
                           variables |-> << <<"function.name", "value">> >>] >>]
    ELSE IF p.method.params[1].type = "RestElement"
    THEN [status |-> "Disapproved",
          comments |->
            << [id |-> "UNEXPECTED_SPLAT_ARGS",
                variables |->
                  << <<"splat-arg.name", p.method.params[1].name>>,
                     <<"parameter.type",
                       ExpectedTypeText(p.method.params[1])>> >>] >>]
    ELSE [status |-> "ReferredToMentor", comments |-> <<>>]

\* C16: also when execute is called again on the same analyzer with
\* another submission, the facts a run has read are those of its own
\* program, and the run ends with the verdict and comments of a run by a
\* newly constructed analyzer on that submission.
C16_RunsUseTheirOwnProgram ==
    /\ trace # <<>> =>
          /\ _mainMethod = program.method
          /\ _mainExport = [type |-> "Array", declaration |-> program.export]
    /\ "isOptimalMapJoinImplementation" \in Range(trace) =>
          _mainConstants = [type |-> "Array", items |-> program.constants]
    /\ (Finished /\ pc = "done") =>
          [status |-> verdict, comments |-> comments] = FreshOutcome(program)


(* --------------------------------- C17 -------------------------------- *)

\* C17: when the parser rejects the submission, execute rejects with it:
\* no check is called, no comment is recorded, no program is stored and no
\* verdict is ever produced.
C17_ParseFailureIsNoVerdict ==
    input.malformed =>
        /\ pc \in {"start", "rejected"}
        /\ verdict = "none"
        /\ comments = <<>>
        /\ trace = <<>>
        /\ Falsy(program)

\* execute has rejected on a malformed submission
C17_Witness ==
    /\ input.malformed
    /\ pc = "rejected"

(* --------------------------------- C18 -------------------------------- *)

\* C18: a run that has ended Disapproved carries a non-empty comment list
\* with a blocking comment in it; one that has ended Approved or
\* ReferredToMentor carries no blocking comment.
C18_BlockingCommentsIffDisapproved ==
    pc = "done" =>
        /\ verdict = "Disapproved" =>
              (comments # <<>> /\ HasBlocking(comments))
        /\ verdict \in {"Approved", "ReferredToMentor"} =>
              ~HasBlocking(comments)

\* a run the signature check has disapproved for want of a parameter
C18_Witness ==
    /\ pc = "done"
    /\ verdict = "Disapproved"
    /\ Ids(comments) = {"NO_PARAMETER"}

(* --------------------------------- C19 -------------------------------- *)

TipIds == {"javascript.resistor-color-duo.export_inline"}

\* C19: the comments of a run are of one stage at most: structural ones,
\* or signature ones, or the tip.
C19_CommentsOfOneStage ==
    Cardinality({ stage \in {StructuralIds, SignatureIds, TipIds} :
                    Ids(comments) \cap stage # {} }) <= 1

\* a run with two comments, both structural
C19_Witness ==
    /\ verdict = "Disapproved"
    /\ Cardinality(Ids(comments)) = 2
    /\ Ids(comments) \subseteq StructuralIds

(* --------------------------------- C20 -------------------------------- *)

IsStructural(comment) == comment.id \in StructuralIds

\* what the structure check is to append on a program
ExpectedStructural(p) ==
    (IF Falsy(p.method)
     THEN << [id |-> "NO_METHOD", variables |-> << <<"method.name", "value">> >>] >>
     ELSE <<>>)
    \o
    (IF Falsy(p.export)
     THEN << [id |-> "NO_NAMED_EXPORT",
              variables |-> << <<"export.name", "value">> >>] >>
     ELSE <<>>)

\* C20: once the structure check has run, the structural comments are
\* NO_METHOD if and only if the function is absent, then NO_NAMED_EXPORT if
\* and only if the export is absent, each once; if there is one the run is
\* Disapproved there and then, with these comments only; if there is none
\* the check has recorded nothing and the run has gone on to the signature
\* check.
C20_StructureCheck ==
    trace # <<>> =>
        LET expected == ExpectedStructural(program)
        IN /\ SelectSeq(comments, IsStructural) = expected
           /\ expected # <<>> =>
                 /\ comments = expected
                 /\ verdict = "Disapproved"
                 /\ pc = "done"
                 /\ trace = <<"checkStructure">>
           /\ expected = <<>> =>
                 /\ verdict # "Disapproved" \/ "checkSignature" \in Range(trace)
                 /\ pc = "checkSignature" \/ "checkSignature" \in Range(trace)
                 /\ trace = <<"checkStructure">> =>
                       (comments = <<>> /\ verdict = "none")

\* the structure check has found neither the function nor the export
C20_Witness ==
    /\ trace = <<"checkStructure">>
    /\ Len(comments) = 2
    /\ comments[1].id = "NO_METHOD"
    /\ comments[2].id = "NO_NAMED_EXPORT"

=============================================================================
